---- MODULE Spec2Model ----
(***************************************************************************)
(* Black-hole renderer: the two frame drivers (src/web/main.js and         *)
(* src/unnamed/part_001), their palette builders, and the compositing     *)
(* skeleton of the fragment shaders.                                       *)
(*                                                                         *)
(* Numbers.  Colour bytes are integers 0..255.  Real-valued quantities of  *)
(* the palette builder are fixed point with FP = 1.0.  Driver time: one    *)
(* clock tick is 5.625 s and accelerations are in tenths, so the product   *)
(* elapsed * speed is in units of 0.5625 s and LOOP_DURATION = 13.5 s is   *)
(* 24 units.  Shader scalars are in thousandths (ONE = 1.0), angles in     *)
(* milliradians.                                                           *)
(***************************************************************************)
EXTENDS Integers, Sequences, FiniteSets, TLC

\* null for the object-valued variables, and for the two strings
NULL == [kind |-> "null"]
NoText == "null"

(* ------------------------------ bounds -------------------------------- *)
\* number of entries of textureCandidates the model walks (the code lists 8)
NumCandidates == 2
\* largest clock reading, in ticks
MaxClock == 2
\* columns of the ramp canvas (256 in the code) and rows of the sampling canvas
PaletteWidth == 2
SampleHeight == 4

(* ------------------------- arithmetic helpers ------------------------- *)
Min(a, b) == IF a < b THEN a ELSE b
Max(a, b) == IF a > b THEN a ELSE b
Abs(a) == IF a < 0 THEN -a ELSE a

\* Math.round on a non-negative quotient n/d: nearest integer, halves up
RoundDiv(n, d) == (2 * n + d) \div (2 * d)

\* JavaScript's % : the remainder takes the sign of the dividend
JsRem(a, b) == IF a >= 0 THEN a % b ELSE -((-a) % b)

RECURSIVE SumSeq(_)
SumSeq(s) == IF s = <<>> THEN 0 ELSE Head(s) + SumSeq(Tail(s))

(* ------------------------------ images -------------------------------- *)
\* Reference images as the canvas sees them after drawImage has scaled them
\* to the canvas: a colour <<r, g, b>> for every row y and column x.
ImageNames == {"white", "dim", "black", "band"}

BandStart(h) == (h * 32) \div 100
BandEnd(h) == (h * 68 + 99) \div 100

Pixel(img, y, x, h) ==
    CASE img = "white" -> <<255, 255, 255>>
      [] img = "dim"   -> <<30 + 2 * x, 30, 28>>
      [] img = "black" -> <<0, 0, 0>>
      [] img = "band"  -> IF y >= BandStart(h) /\ y < BandEnd(h)
                          THEN <<200, 100 + 10 * x, 50>>
                          ELSE <<0, 0, 0>>

\* sum of channel c of column x over the rows y0 .. y1-1
RECURSIVE ColSum(_, _, _, _, _)
ColSum(img, x, c, y0, y1) ==
    IF y0 >= y1 THEN 0
    ELSE Pixel(img, y0, x, SampleHeight)[c] + ColSum(img, x, c, y0 + 1, y1)

(* ------------------------- palette builders --------------------------- *)
\* 1.0 of the palette builder's real-valued quantities
FP == 100 * 100

Columns == 0 .. (PaletteWidth - 1)
Channels == 1 .. 3

\* createFallbackPalette: a 2x2 texture of four fixed colours
FallbackColours == << <<5, 3, 12>>, <<12, 6, 20>>, <<42, 20, 70>>, <<160, 120, 200>> >>

createFallbackPalette(drv) ==
    [ kind   |-> "fallback",
      width  |-> 2,
      height |-> 2,
      data   |-> IF drv = "main"
                 THEN FallbackColours
                 ELSE [i \in 1..4 |-> FallbackColours[i] \o <<255>>] ]

\* the entries of the source list that the forEach body reads without
\* throwing (main.js also skips an entry without image)
Usable(sources) == SelectSeq(sources, LAMBDA s : s.readable)

\* accum[x][c] after the forEach, main.js: one canvas row, data / 255
RECURSIVE AccumMain(_, _, _)
AccumMain(srcs, x, c) ==
    IF srcs = <<>> THEN 0
    ELSE (((ColSum(Head(srcs).img, x, c, 0, SampleHeight) \div SampleHeight) * FP) \div 255)
         + AccumMain(Tail(srcs), x, c)

ByteOf(v) == Max(0, Min(255, RoundDiv(v * 255, FP)))

\* usableCount counting every entry, read or not
CombinedMain_countsAll(sources, ctxOk) ==
    LET use == Usable(sources)
        n   == Len(use)
    IN  IF Len(sources) = 0 \/ ~ctxOk \/ n = 0 THEN NULL
        ELSE [ kind   |-> "combined",
               width  |-> PaletteWidth,
               height |-> 1,
               data   |-> [i \in 1..PaletteWidth |->
                            [c \in Channels |->
                               ByteOf(AccumMain(use, i - 1, c) \div Len(sources))]] ]

CombinedMain(sources, ctxOk) ==
    LET use == Usable(sources)
        n   == Len(use)
    IN  IF Len(sources) = 0 \/ ~ctxOk \/ n = 0 THEN NULL
        ELSE [ kind   |-> "combined",
               width  |-> PaletteWidth,
               height |-> 1,
               data   |-> [i \in 1..PaletteWidth |->
                            [c \in Channels |-> ByteOf(AccumMain(use, i - 1, c) \div n)]] ]

\* part_001: the rows sampleStart .. sampleEnd-1 of a sampleHeight canvas
sampleStart == BandStart(SampleHeight)
sampleEnd == BandEnd(SampleHeight)
sampleRows == Max(1, sampleEnd - sampleStart)

RECURSIVE AccumBand(_, _, _)
AccumBand(srcs, x, c) ==
    IF srcs = <<>> THEN 0
    ELSE ((ColSum(Head(srcs).img, x, c, sampleStart, sampleEnd) * FP) \div (sampleRows * 255))
         + AccumBand(Tail(srcs), x, c)

Averaged(use, x, c) == AccumBand(use, x, c) \div Len(use)

RECURSIVE BrightnessSum(_, _)
BrightnessSum(use, x) ==
    IF x >= PaletteWidth THEN 0
    ELSE ((Averaged(use, x, 1) + Averaged(use, x, 2) + Averaged(use, x, 3)) \div 3)
         + BrightnessSum(use, x + 1)

Brightness(use) == BrightnessSum(use, 0) \div PaletteWidth

\* 0.12, 0.75, 4.5, 2.5 and 1e-4 of part_001, as multiples of FP
targetBrightness == (12 * FP) \div 100
ScaleMin == (75 * FP) \div 100
ScaleMax == (45 * FP) \div 10
ScaleDark == (25 * FP) \div 10
BrightnessEps == FP \div 10000

MathClamp(v, lo, hi) == Max(lo, Min(hi, v))

\* the ratio used as it is
Scale_unclamped(use) ==
    IF Brightness(use) > BrightnessEps
    THEN (targetBrightness * FP) \div Brightness(use)
    ELSE ScaleDark

Scale(use) ==
    IF Brightness(use) > BrightnessEps
    THEN MathClamp((targetBrightness * FP) \div Brightness(use), ScaleMin, ScaleMax)
    ELSE ScaleDark

CombinedBand(sources, ctxOk) ==
    LET use == Usable(sources)
        n   == Len(use)
    IN  IF Len(sources) = 0 \/ ~ctxOk \/ n = 0 THEN NULL
        ELSE [ kind   |-> "combined",
               width  |-> PaletteWidth,
               height |-> 1,
               data   |-> [i \in 1..PaletteWidth |->
                            [c \in 1..4 |->
                               IF c = 4 THEN 255
                               ELSE ByteOf(Min(FP, (Averaged(use, i - 1, c) * Scale(use)) \div FP))]] ]

createCombinedPalette(drv, sources, ctxOk) ==
    IF drv = "main" THEN CombinedMain(sources, ctxOk) ELSE CombinedBand(sources, ctxOk)

(* ------------------------------ driver -------------------------------- *)
VARIABLES
    driver,          \* "main" (src/web/main.js) or "part001" (src/unnamed/part_001)
    pc,              \* where init() is
    vertexShader,    \* text returned by loadShader, NULL before
    fragmentShader,
    idx,             \* index of the textureCandidates entry being loaded
    sources,         \* loadedTextures / imageSources
    ctx2d,           \* what canvas.getContext("2d") returned: "unset", "ok", "none"
    combinedPalette, \* the local of init
    uniforms,        \* the uniforms object, NULL before it is created
    windowSize,      \* window.innerWidth, window.innerHeight
    rendererSize,    \* size last given to renderer.setSize
    listening,       \* the resize listener is registered
    clock,           \* last value returned by clock.getElapsedTime()
    rafPending,      \* animation-frame callbacks requested and not yet run
    lastFrame,       \* what the last renderer.render call saw, NULL before
    prevFrame,       \* the time inputs of the render call before that
    frag             \* the fragment being shaded, NULL while the driver is modelled

vars == << driver, pc, vertexShader, fragmentShader, idx, sources, ctx2d, combinedPalette,
           uniforms, windowSize, rendererSize, listening, clock, rafPending,
           lastFrame, prevFrame, frag >>

Drivers == {"main", "part001"}

\* the sizes the browser window takes in the model
WindowSizes == { <<1920, 1080>>, <<800, 600>> }
FixedSize == <<1920, 1080>>

\* 13.5 s, in units of 0.5625 s
LOOP_DURATION == 24
\* u_cycle is held in units of 1 / PhaseOne, u_time in milliradians
PhaseOne == 12 * 100
TAU == 6283

\* initial uniform values, acceleration in tenths, warp and jets in hundredths
DefaultAcceleration == 12
DefaultWarp == 85
DefaultJetIntensity == 105

\* values the parameter controls give u_acceleration (tenths): inside the
\* declared domain [0.2, 3] and outside it
AccelValues == {-12, 12, 30}

\* the images the candidates of the driver resolve to
DriverImages == {"dim"}

\* a * b / c, rounded to the nearest integer, for c > 0
MulDiv(a, b, c) ==
    IF a * b >= 0 THEN RoundDiv(a * b, c) ELSE -RoundDiv(-(a * b), c)

Init ==
    /\ driver \in Drivers
    /\ pc = "fetchShaders"
    /\ vertexShader = NoText
    /\ fragmentShader = NoText
    /\ idx = 1
    /\ sources = <<>>
    /\ ctx2d = "unset"
    /\ combinedPalette = NULL
    /\ uniforms = NULL
    /\ windowSize \in IF driver = "main" THEN WindowSizes ELSE {FixedSize}
    /\ rendererSize = IF driver = "main" THEN windowSize ELSE FixedSize
    /\ listening = FALSE
    /\ clock = 0
    /\ rafPending = 0
    /\ lastFrame = NULL
    /\ prevFrame = NULL
    /\ frag = NULL

\* loadShader: the text of the response, whatever its status
loadShader(outcome) == IF outcome = "ok" THEN "glsl" ELSE "errorBody"

AfterLoad(i) == IF i > NumCandidates THEN "palette" ELSE "loadImages"

\* the Promise.all of the two loadShader calls settles
shadersSettle ==
    /\ pc = "fetchShaders"
    /\ \E v \in {"ok", "notOk", "reject"}, f \in {"ok", "notOk", "reject"} :
          IF v = "reject" \/ f = "reject"
          THEN /\ pc' = "failed"
               /\ UNCHANGED << vertexShader, fragmentShader >>
          ELSE /\ pc' = AfterLoad(idx)
               /\ vertexShader' = loadShader(v)
               /\ fragmentShader' = loadShader(f)
    /\ UNCHANGED << frag, driver, idx, sources, ctx2d, combinedPalette, uniforms, windowSize,
                    rendererSize, listening, clock, rafPending, lastFrame, prevFrame >>

\* one pass of the for loop over textureCandidates: the awaited load settles,
\* with an image out of images or with a rejection
LoadSettles(images) ==
    /\ pc = "loadImages"
    /\ \/ \* rejected: caught and logged
          UNCHANGED sources
       \/ \E img \in images, rd \in BOOLEAN :
             sources' = Append(sources, [img |-> img, readable |-> rd, released |-> 0])
    /\ idx' = idx + 1
    /\ pc' = AfterLoad(idx + 1)
    /\ UNCHANGED << frag, driver, vertexShader, fragmentShader, ctx2d, combinedPalette, uniforms,
                    windowSize, rendererSize, listening, clock, rafPending,
                    lastFrame, prevFrame >>

\* a rejected load is not caught: init() ends there
imageSettles_abortOnFailure ==
    \/ /\ pc = "loadImages"
       /\ pc' = "failed"
       /\ UNCHANGED << frag, driver, vertexShader, fragmentShader, idx, sources, ctx2d,
                       combinedPalette, uniforms, windowSize, rendererSize, listening,
                       clock, rafPending, lastFrame, prevFrame >>
    \/ /\ pc = "loadImages"
       /\ \E img \in DriverImages, rd \in BOOLEAN :
             sources' = Append(sources, [img |-> img, readable |-> rd, released |-> 0])
       /\ idx' = idx + 1
       /\ pc' = AfterLoad(idx + 1)
       /\ UNCHANGED << frag, driver, vertexShader, fragmentShader, ctx2d, combinedPalette,
                       uniforms, windowSize, rendererSize, listening, clock, rafPending,
                       lastFrame, prevFrame >>

imageSettles == LoadSettles(DriverImages)

\* main.js pushes a 2x2 DataTexture when nothing was loaded; drawImage does
\* not accept its image, so reading it throws
FallbackEntry == [img |-> "data2x2", readable |-> FALSE, released |-> 0]

PaletteInput(drv, srcs) ==
    IF drv = "main" /\ Len(srcs) = 0 THEN <<FallbackEntry>> ELSE srcs

\* the combined palette used as it is, null or not
PaletteOrFallback_noFallback(drv, srcs, ctxOk) == createCombinedPalette(drv, srcs, ctxOk)

PaletteOrFallback(drv, srcs, ctxOk) ==
    LET combined == createCombinedPalette(drv, srcs, ctxOk)
    IN  IF combined = NULL THEN createFallbackPalette(drv) ELSE combined

buildPalette ==
    /\ pc = "palette"
    /\ sources' = PaletteInput(driver, sources)
    /\ \E ctxOk \in BOOLEAN :
          /\ ctx2d' = IF ctxOk THEN "ok" ELSE "none"
          /\ combinedPalette' = PaletteOrFallback(driver, sources', ctxOk)
    /\ pc' = IF driver = "main" THEN "uniforms" ELSE "release"
    /\ UNCHANGED << frag, driver, vertexShader, fragmentShader, idx, uniforms, windowSize,
                    rendererSize, listening, clock, rafPending, lastFrame, prevFrame >>

\* part_001: imageSources.forEach(entry => entry.cleanup())
\* cleanup only of the sources a combined ramp was built from
releaseSources_onlyCombined ==
    /\ pc = "release"
    /\ sources' = [i \in 1..Len(sources) |->
                     [sources[i] EXCEPT !.released =
                         IF combinedPalette.kind = "combined"
                         THEN sources[i].released + 1 ELSE sources[i].released]]
    /\ pc' = "uniforms"
    /\ UNCHANGED << frag, driver, vertexShader, fragmentShader, idx, ctx2d, combinedPalette, uniforms,
                    windowSize, rendererSize, listening, clock, rafPending,
                    lastFrame, prevFrame >>

releaseSources ==
    /\ pc = "release"
    /\ sources' = [i \in 1..Len(sources) |->
                     [sources[i] EXCEPT !.released = sources[i].released + 1]]
    /\ pc' = "uniforms"
    /\ UNCHANGED << frag, driver, vertexShader, fragmentShader, idx, ctx2d, combinedPalette, uniforms,
                    windowSize, rendererSize, listening, clock, rafPending,
                    lastFrame, prevFrame >>

\* the uniforms object created before the palette is attached to it
NewUniforms_noTexture(drv, palette, win) ==
    [ u_time |-> 0, u_cycle |-> 0, u_elapsed |-> 0,
      u_resolution |-> win,
      u_baseTexture |-> NULL,
      u_acceleration |-> DefaultAcceleration,
      u_warp |-> DefaultWarp,
      u_jetIntensity |-> DefaultJetIntensity ]

NewUniforms(drv, palette, win) ==
    IF drv = "main"
    THEN [ u_time |-> 0, u_cycle |-> 0,
           u_resolution |-> win,
           u_baseTexture |-> palette,
           u_acceleration |-> DefaultAcceleration,
           u_warp |-> DefaultWarp,
           u_jetIntensity |-> DefaultJetIntensity ]
    ELSE [ u_time |-> 0, u_cycle |-> 0, u_elapsed |-> 0,
           u_resolution |-> FixedSize,
           u_baseTexture |-> palette,
           u_acceleration |-> DefaultAcceleration,
           u_warp |-> DefaultWarp,
           u_jetIntensity |-> DefaultJetIntensity ]

makeUniforms ==
    /\ pc = "uniforms"
    /\ uniforms' = NewUniforms(driver, combinedPalette, windowSize)
    /\ pc' = IF driver = "main" THEN "listen" ELSE "firstFrame"
    /\ UNCHANGED << frag, driver, vertexShader, fragmentShader, idx, sources, ctx2d, combinedPalette,
                    windowSize, rendererSize, listening, clock, rafPending,
                    lastFrame, prevFrame >>

\* main.js: window.addEventListener("resize", onResize)
addResizeListener ==
    /\ pc = "listen"
    /\ listening' = TRUE
    /\ pc' = "firstFrame"
    /\ UNCHANGED << frag, driver, vertexShader, fragmentShader, idx, sources, ctx2d, combinedPalette,
                    uniforms, windowSize, rendererSize, clock, rafPending,
                    lastFrame, prevFrame >>

\* the phase without the remainder: the clock is never wrapped
Phase_unwrapped(t, speed) == (t * speed * PhaseOne) \div LOOP_DURATION

\* the time uniforms animate() writes for clock reading t
Phase(t, speed) == (JsRem(t * speed, LOOP_DURATION) * PhaseOne) \div LOOP_DURATION

\* the phase written to u_warp instead of u_cycle
TimeUniforms_wrongUniform(u, drv, t) ==
    [u EXCEPT !.u_warp = Phase(t, u.u_acceleration),
              !.u_time = MulDiv(Phase(t, u.u_acceleration), TAU, PhaseOne)]

\* the phase added to the u_cycle of the frame before
TimeUniforms_accumulated(u, drv, t) ==
    LET phase == (u.u_cycle + Phase(t, u.u_acceleration)) % PhaseOne
        timed == [u EXCEPT !.u_cycle = phase, !.u_time = MulDiv(phase, TAU, PhaseOne)]
    IN  IF drv = "main" THEN timed ELSE [timed EXCEPT !.u_elapsed = t * u.u_acceleration]

TimeUniforms(u, drv, t) ==
    LET speed    == u.u_acceleration
        adjusted == t * speed
        phase    == Phase(t, speed)
        timed    == [u EXCEPT !.u_cycle = phase,
                              !.u_time = MulDiv(phase, TAU, PhaseOne)]
    IN  IF drv = "main" THEN timed ELSE [timed EXCEPT !.u_elapsed = adjusted]

\* renderer.render called before the uniforms are written
Rendered_beforeWrites(entry, u, t) ==
    [ kind |-> "frame", elapsed |-> t, entry |-> entry, uniforms |-> entry,
      size |-> rendererSize, fragmentShader |-> fragmentShader ]

\* what renderer.render(scene, camera) draws with; entry is the uniforms
\* object as animate() found it
Rendered(entry, u, t) ==
    [ kind |-> "frame", elapsed |-> t, entry |-> entry, uniforms |-> u,
      size |-> rendererSize, fragmentShader |-> fragmentShader ]

\* the time inputs of a rendered frame
TimeInputs(frame) ==
    IF frame = NULL THEN NULL
    ELSE [ kind |-> "time", elapsed |-> frame.elapsed,
           speed |-> frame.uniforms.u_acceleration,
           u_time |-> frame.uniforms.u_time,
           u_cycle |-> frame.uniforms.u_cycle,
           u_elapsed |-> IF driver = "main" THEN 0 ELSE frame.uniforms.u_elapsed ]

\* a frame that requests no next frame
animate_noRequest ==
    /\ \/ pc = "firstFrame"
       \/ pc = "running" /\ rafPending > 0
    /\ \E t \in clock .. MaxClock :
          /\ clock' = t
          /\ uniforms' = TimeUniforms(uniforms, driver, t)
          /\ lastFrame' = Rendered(uniforms, uniforms', t)
    /\ prevFrame' = TimeInputs(lastFrame)
    /\ rafPending' = IF pc = "firstFrame" THEN 0 ELSE rafPending - 1
    /\ pc' = "running"
    /\ UNCHANGED << frag, driver, vertexShader, fragmentShader, idx, sources, ctx2d, combinedPalette,
                    windowSize, rendererSize, listening >>

\* animate(): called by init once, then as the animation-frame callback
animate ==
    /\ \/ pc = "firstFrame"
       \/ pc = "running" /\ rafPending > 0
    /\ \E t \in clock .. MaxClock :
          /\ clock' = t
          /\ uniforms' = TimeUniforms(uniforms, driver, t)
          /\ lastFrame' = Rendered(uniforms, uniforms', t)
    /\ prevFrame' = TimeInputs(lastFrame)
    /\ rafPending' = IF pc = "firstFrame" THEN 1 ELSE (rafPending - 1) + 1
    /\ pc' = "running"
    /\ UNCHANGED << frag, driver, vertexShader, fragmentShader, idx, sources, ctx2d, combinedPalette,
                    windowSize, rendererSize, listening >>

\* main.js onResize, run by the browser when the window changes size
onResize(size) ==
    /\ rendererSize' = size
    /\ uniforms' = [uniforms EXCEPT !.u_resolution = size]

\* the window is resized while no script is running
windowResize ==
    /\ driver = "main"
    /\ pc \in {"fetchShaders", "loadImages", "running"}
    /\ \E size \in WindowSizes \ {windowSize} :
          /\ windowSize' = size
          /\ IF listening THEN onResize(size)
                          ELSE UNCHANGED << rendererSize, uniforms >>
    /\ UNCHANGED << frag, driver, pc, vertexShader, fragmentShader, idx, sources, ctx2d,
                    combinedPalette, listening, clock, rafPending, lastFrame, prevFrame >>

\* a parameter control writes u_acceleration between two frames
setAcceleration ==
    /\ pc = "running"
    /\ \E a \in AccelValues \ {uniforms.u_acceleration} :
          uniforms' = [uniforms EXCEPT !.u_acceleration = a]
    /\ UNCHANGED << frag, driver, pc, vertexShader, fragmentShader, idx, sources, ctx2d,
                    combinedPalette, windowSize, rendererSize, listening, clock,
                    rafPending, lastFrame, prevFrame >>

Next ==
    \/ shadersSettle
    \/ imageSettles
    \/ buildPalette
    \/ releaseSources
    \/ makeUniforms
    \/ addResizeListener
    \/ animate
    \/ windowResize
    \/ setAcceleration

Spec == Init /\ [][Next]_vars

\* Every awaited load settles and the browser runs each continuation and each
\* requested animation frame.
LiveSpec ==
    /\ Init
    /\ [][Next]_vars
    /\ WF_vars(imageSettles)
    /\ WF_vars(buildPalette)
    /\ WF_vars(releaseSources)
    /\ WF_vars(makeUniforms)
    /\ WF_vars(addResizeListener)
    /\ WF_vars(animate)

(* ------------------- the palette builder on its own ------------------- *)
\* init from the image loop on, with every image of ImageNames as a candidate
PaletteInit ==
    /\ driver \in Drivers
    /\ pc = "loadImages"
    /\ vertexShader = "glsl"
    /\ fragmentShader = "glsl"
    /\ idx = 1
    /\ sources = <<>>
    /\ ctx2d = "unset"
    /\ combinedPalette = NULL
    /\ uniforms = NULL
    /\ windowSize = FixedSize
    /\ rendererSize = FixedSize
    /\ listening = FALSE
    /\ clock = 0
    /\ rafPending = 0
    /\ lastFrame = NULL
    /\ prevFrame = NULL
    /\ frag = NULL

anyImageSettles == LoadSettles(ImageNames)

PaletteNext ==
    \/ anyImageSettles
    \/ buildPalette
    \/ releaseSources
    \/ makeUniforms

PaletteSpec == PaletteInit /\ [][PaletteNext]_vars

(* ------------------------- fragment shaders --------------------------- *)
\* The five fragment programs: blackhole.frag.glsl holds two, one after the
\* other ("enhanced", lines 1-429, and "rotating", lines 431-874).
Variants == {"enhanced", "rotating", "cinematic", "part002", "part003"}
\* the programs that take their time from u_time and u_cycle alone
LoopingVariants == {"enhanced", "part002", "part003"}

\* 1.0 of a shader scalar; angles are in thousandths of a radian
ONE == 10 * 100
PI == 3142
HalfPi == PI \div 2
EVENT_HORIZON == 220
PHOTON_SPHERE == 290

\* Floats: the finite values are integers of magnitude up to MaxFinite, and
\* above them sit the two infinities and NaN.
MaxFinite == ONE * ONE * ONE
PosInf == MaxFinite + 1
NegInf == -PosInf
NaN == MaxFinite + 2

IsNaN(v) == v = NaN
IsInf(v) == v = PosInf \/ v = NegInf
Sign(v) == IF v > 0 THEN 1 ELSE IF v < 0 THEN -1 ELSE 0

FNeg(a) == IF IsNaN(a) THEN NaN ELSE -a

FAdd(a, b) ==
    IF IsNaN(a) \/ IsNaN(b) \/ (IsInf(a) /\ IsInf(b) /\ a # b) THEN NaN
    ELSE IF IsInf(a) THEN a
    ELSE IF IsInf(b) THEN b
    ELSE a + b

FMul(a, b) ==
    IF IsNaN(a) \/ IsNaN(b) THEN NaN
    ELSE IF IsInf(a) \/ IsInf(b)
         THEN IF a = 0 \/ b = 0 THEN NaN
              ELSE IF Sign(a) * Sign(b) > 0 THEN PosInf ELSE NegInf
    ELSE MulDiv(a, b, ONE)

FDiv(a, b) ==
    IF IsNaN(a) \/ IsNaN(b) \/ (IsInf(a) /\ IsInf(b)) \/ (a = 0 /\ b = 0) THEN NaN
    ELSE IF IsInf(b) THEN 0
    ELSE IF IsInf(a) \/ b = 0
         THEN IF Sign(a) * (IF b < 0 THEN -1 ELSE 1) > 0 THEN PosInf ELSE NegInf
    ELSE IF b > 0 THEN MulDiv(a, ONE, b) ELSE -MulDiv(a, ONE, -b)

\* What GLSL ES leaves open, fixed per build of the shader.  min and max on a
\* NaN: the operand that is not NaN ("nonNaN"), the result of the formulas
\* "y if x < y, otherwise x" and "y if y < x, otherwise x" with every
\* comparison on NaN false ("formula"), or NaN ("propagate").  pow of a
\* negative base: NaN, or the power of the magnitude.
MinMaxRules == {"nonNaN", "formula", "propagate"}
PowRules == {"nan", "abs"}
Builds == [minmax : MinMaxRules, powNeg : PowRules]

FMax(build, x, y) ==
    IF ~IsNaN(x) /\ ~IsNaN(y) THEN Max(x, y)
    ELSE CASE build.minmax = "nonNaN" -> IF IsNaN(x) THEN y ELSE x
           [] build.minmax = "formula" -> x
           [] OTHER -> NaN

FMin(build, x, y) ==
    IF ~IsNaN(x) /\ ~IsNaN(y) THEN Min(x, y)
    ELSE CASE build.minmax = "nonNaN" -> IF IsNaN(x) THEN y ELSE x
           [] build.minmax = "formula" -> x
           [] OTHER -> NaN

\* clamp(x, lo, hi) is min(max(x, lo), hi)
FClamp(build, x, lo, hi) == FMin(build, FMax(build, x, lo), hi)

\* sin on [-pi/2, pi/2]
SinReduced(x) ==
    LET x2 == MulDiv(x, x, ONE)
        x3 == MulDiv(x2, x, ONE)
        x5 == MulDiv(x3, x2, ONE)
        x7 == MulDiv(x5, x2, ONE)
    IN  x - MulDiv(x3, 1, 6) + MulDiv(x5, 1, 120) - MulDiv(x7, 1, 5040)

Sin(a) ==
    LET m == a % TAU
    IN  IF m <= HalfPi THEN SinReduced(m)
        ELSE IF m <= TAU - HalfPi THEN SinReduced(PI - m)
        ELSE SinReduced(m - TAU)

Cos(a) == Sin(a + HalfPi)

\* e^-f for 0 <= f < 1
ExpFrac(f) ==
    LET f2 == MulDiv(f, f, ONE)
        f3 == MulDiv(f2, f, ONE)
        f4 == MulDiv(f3, f, ONE)
        f5 == MulDiv(f4, f, ONE)
    IN  ONE - f + MulDiv(f2, 1, 2) - MulDiv(f3, 1, 6) + MulDiv(f4, 1, 24) - MulDiv(f5, 1, 120)

\* e^-k for a whole k
RECURSIVE ExpWhole(_)
ExpWhole(k) == IF k = 0 THEN ONE ELSE IF k > 7 THEN 0 ELSE MulDiv(ExpWhole(k - 1), 368, ONE)

\* e^-x for x >= 0
ExpNeg(x) == MulDiv(ExpWhole(x \div ONE), ExpFrac(x % ONE), ONE)

Exp(x) ==
    IF IsNaN(x) THEN NaN
    ELSE IF x = PosInf THEN PosInf
    ELSE IF x = NegInf THEN 0
    ELSE IF x <= 0 THEN ExpNeg(-x)
    ELSE IF ExpNeg(x) = 0 THEN MaxFinite
    ELSE (ONE * ONE) \div ExpNeg(x)

\* natural logarithm of a finite x > 0
RECURSIVE Ln(_)
Ln(x) ==
    IF x > 2 * ONE THEN 693 + Ln(x \div 2)
    ELSE IF x < ONE \div 2 THEN Ln(2 * x) - 693
    ELSE LET z == MulDiv(x - ONE, ONE, x + ONE)
             z2 == MulDiv(z, z, ONE)
             z3 == MulDiv(z2, z, ONE)
             z5 == MulDiv(z3, z2, ONE)
         IN  2 * (z + MulDiv(z3, 1, 3) + MulDiv(z5, 1, 5))

\* pow(x, y) for y > 0: undefined by GLSL for x < 0
Pow(build, x, y) ==
    LET mag == IF x < 0 THEN -x ELSE x
    IN  IF IsNaN(x) THEN NaN
        ELSE IF x < 0 /\ build.powNeg = "nan" THEN NaN
        ELSE IF mag = 0 THEN 0
        ELSE IF IsInf(mag) THEN PosInf
        ELSE Exp(MulDiv(y, Ln(mag), ONE))

\* smoothstep(edge0, edge1, x) for edge0 < edge1 and a finite x
Smoothstep(edge0, edge1, x) ==
    LET t == Max(0, Min(ONE, MulDiv(x - edge0, ONE, edge1 - edge0)))
    IN  (t * t * (3 * ONE - 2 * t)) \div (ONE * ONE)

\* mix(a, b, t)
Mix(a, b, t) == FAdd(FMul(a, ONE - t), FMul(b, t))

\* filmic(color): toe is the 0.004 the cinematic program subtracts first
Filmic(build, color, toe) ==
    LET c == FMax(build, 0, FAdd(color, -toe))
        num == FMul(c, FAdd(FMul(6200, c), 500))
        den == FAdd(FMul(c, FAdd(FMul(6200, c), 1700)), 60)
    IN  FDiv(num, den)

\* The pixels and uniform values a fragment is shaded for.  r is the radius
\* main() computes for the pixel (polar.x, or horizonRadius in the cinematic
\* program), angle its polar angle, cy the pixel's centered.y.
RadiusSamples == {0, 100, 154, 200, 220, 240, 290, 400, 1000, 1200}
RowSamples == {-357, 0, 357}
\* the polar angle of the pixel: pi/4
PixelAngles == {785}
LoopAngles == {0, TAU}
ElapsedSamples == {0, 13500}
\* u_jetIntensity: inside the declared domain [0, 2] and outside it
JetValues == {-1000, 1050, 5000}
\* a sample of the palette ramp
PaletteLevels == {120, 1000}
\* lensTerm is bend * caustic, and bend is clamped to [0, 0.85]
LensTerms == {0, 850}
\* what hash() and fbm() return for the pixel
NoiseLevels == {0, 500}
\* the background sum of the pixel before the hole mask, without the galactic
\* plane; the emission sum without the jets; the jets per unit of intensity
BackgroundLevels == {0, 80}
EmissionLevels == {1500}
JetShapes == {0, 500}

\* the programs that multiply the background by a hole mask of their own
MaskedVariants == {"enhanced", "rotating", "part002"}

InputsOf(v) ==
    [ kind : {"fragment"}, build : Builds, variant : {v},
      r : RadiusSamples,
      cy : IF v = "part002" THEN RowSamples ELSE {0},
      angle : PixelAngles,
      loopAngle : LoopAngles,
      u_elapsed : IF v \in {"rotating", "cinematic"} THEN ElapsedSamples ELSE {0},
      u_jetIntensity : IF v = "cinematic" THEN {1050} ELSE JetValues,
      pal : IF v \in {"part002", "rotating"} THEN PaletteLevels ELSE {120},
      lensTerm : IF v = "rotating" THEN LensTerms ELSE {0},
      noise : NoiseLevels,
      bg : BackgroundLevels,
      rest : EmissionLevels,
      jetUnit : IF v = "cinematic" THEN {0} ELSE JetShapes,
      stage : {"start"}, terms : {NULL}, background : {0}, holeMask : {ONE},
      tint : {<< ONE, ONE, ONE >>},
      jets : {0}, emission : {0}, linear : {0}, color : {0}, fragColor : {NULL} ]

\* u_cycle of a frame whose u_time is la
CycleOf(la) == MulDiv(la, ONE, TAU)

\* cos and sin of k * loopAngle + offset
OrbitX(la, k, offset) == Cos(MulDiv(la, k, ONE) + offset)
OrbitY(la, k, offset) == Sin(MulDiv(la, k, ONE) + offset)

\* the terms of main() that change with time, per program
TermsEnhanced(f) ==
    LET la == f.loopAngle
        baseAngle == MulDiv(CycleOf(la), TAU, ONE)
        twinkleSpeed == 1200 + MulDiv(f.noise, 1800, ONE)
        twinklePhase == MulDiv(f.noise, TAU, ONE)
    IN  [ orbitAx |-> OrbitX(la, ONE, 0), orbitAy |-> OrbitY(la, ONE, 0),
          orbitBx |-> OrbitX(la, 500, 0), orbitBy |-> OrbitY(la, 500, 0),
          orbitCx |-> OrbitX(la, 300, 0), orbitCy |-> OrbitY(la, 300, 0),
          orbitDx |-> OrbitX(la, 700, 0), orbitDy |-> OrbitY(la, 700, 0),
          shiftX |-> MulDiv(Cos(baseAngle + ONE), 12, ONE),
          shiftY |-> MulDiv(Sin(baseAngle + ONE), 12, ONE),
          twinkle |-> 600 + MulDiv(400, Cos(MulDiv(baseAngle, twinkleSpeed, ONE) + twinklePhase), ONE),
          approach |-> Max(0, Min(ONE, 500 + MulDiv(500, Cos(f.angle - MulDiv(la, 1100, ONE)), ONE))),
          haloFlicker |-> 900 + MulDiv(100, Cos(8 * la + 6 * f.angle), ONE),
          jetPulse |-> 650 + MulDiv(350, Cos(MulDiv(la, 3500, ONE)), ONE),
          iscoEmission |-> 800 + MulDiv(200, Cos(6 * la + 4 * f.angle), ONE) ]

\* part_002 and part_003: diskFlow is flowBase + flowAmp * sin(angle - loopAngle * flowRate)
TermsPart(f, flowBase, flowAmp, flowRate) ==
    LET la == f.loopAngle
        baseAngle == MulDiv(CycleOf(la), TAU, ONE)
        twinkleAngle == MulDiv(baseAngle, 1600 + MulDiv(800, f.noise, ONE), ONE)
                          + MulDiv(f.noise, TAU, ONE)
    IN  [ orbitAx |-> OrbitX(la, ONE, 0), orbitAy |-> OrbitY(la, ONE, 0),
          orbitBx |-> OrbitX(la, 500, 1200), orbitBy |-> OrbitY(la, 500, 1200),
          orbitCx |-> OrbitX(la, 800, -900), orbitCy |-> OrbitY(la, 800, -900),
          shiftX |-> MulDiv(Cos(baseAngle), 15, ONE),
          shiftY |-> MulDiv(Sin(baseAngle), 15, ONE),
          twinkle |-> 550 + MulDiv(450, Sin(twinkleAngle), ONE),
          photonFlicker |-> 750 + MulDiv(250, Sin(3 * la + MulDiv(f.angle, 2200, ONE)), ONE)
                                + MulDiv(120, Sin(5 * la), ONE),
          diskFlow |-> flowBase + MulDiv(flowAmp, Sin(f.angle - MulDiv(la, flowRate, ONE)), ONE),
          jetPulse |-> 600 + MulDiv(400, Sin(4 * la + MulDiv(f.angle, 4500, ONE)), ONE) ]

\* The rotating program: orbitA moves the nebula, orbitB the dust and orbitC
\* the mirage; inflowShear belongs to the inflow fog, outerWarpShift and
\* outerSway to the outer envelope, haloShift to the halo; angle turns the
\* disk and the jets.  The pixel's angle stands for inflowAngle and baseAngle.
TermsRotating(f) ==
    LET la == f.loopAngle
        cycle == CycleOf(la)
        inflowPhase == MulDiv(cycle, TAU, ONE)
    IN  [ orbitAx |-> OrbitX(la, ONE, 0), orbitAy |-> OrbitY(la, ONE, 0),
          orbitBx |-> OrbitX(la, 500, 0), orbitBy |-> OrbitY(la, 500, 0),
          orbitCx |-> OrbitX(la, 300, 0), orbitCy |-> OrbitY(la, 300, 0),
          twinkle |-> 600 + MulDiv(400, Sin(100 * f.noise), ONE),
          inflowShear |-> 600 + MulDiv(400, Sin(MulDiv(f.angle, 2800, ONE)
                                                  - MulDiv(inflowPhase, 1500, ONE)), ONE),
          outerWarpShift |-> MulDiv(cycle, 3200, ONE),
          outerSway |-> MulDiv(220, Sin(MulDiv(f.angle, 2200, ONE)
                                          + MulDiv(inflowPhase, 280, ONE)), ONE),
          haloShift |-> MulDiv(cycle, 500, ONE),
          angle |-> f.angle - MulDiv(f.u_elapsed, 150, ONE) ]

TimeTerms(f) ==
    CASE f.variant = "enhanced" -> TermsEnhanced(f)
      [] f.variant = "part002" -> TermsPart(f, 620, 380, 1150)
      [] f.variant = "part003" -> TermsPart(f, 600, 400, 800)
      [] f.variant = "rotating" -> TermsRotating(f)
      [] OTHER -> [ spin |-> MulDiv(f.u_elapsed, 2350, ONE) ]

\* galacticPlane * planeDrift * planeColor * 0.18 of part_002, at centered.x = 0
GalacticPlane(f) ==
    LET galacticPlane == Exp(FNeg(Pow(f.build, MulDiv(f.cy, 2800, ONE), 2200)))
        planeDrift == 350 + MulDiv(650, Sin(MulDiv(f.loopAngle, 2200, ONE)), ONE)
    IN  FMul(FMul(FMul(f.pal, galacticPlane), planeDrift), 180)

Background(f) ==
    IF f.variant = "part002" THEN FAdd(f.bg, GalacticPlane(f)) ELSE f.bg

\* holeMask, and horizonMask in the cinematic program
HoleMask(variant, r) ==
    CASE variant \in {"enhanced", "part002"} -> Smoothstep(80, 200, r)
      [] variant = "rotating" ->
             Smoothstep(MulDiv(EVENT_HORIZON, 700, ONE), PHOTON_SPHERE, r)
      [] variant = "cinematic" -> Smoothstep(215, 240, r)
      [] OTHER -> ONE

\* lensingRing and photonShadow of the rotating program
LensingRing(r, detail) ==
    MulDiv(MulDiv(Smoothstep(PHOTON_SPHERE - 35, PHOTON_SPHERE - 10, r),
                  ONE - Smoothstep(PHOTON_SPHERE + 10, PHOTON_SPHERE + 50, r), ONE),
           650 + MulDiv(350, detail, ONE), ONE)

PhotonShadow(r, detail) ==
    MulDiv(MulDiv(Smoothstep(PHOTON_SPHERE - 15, PHOTON_SPHERE + 10, r),
                  ONE - Smoothstep(PHOTON_SPHERE + 20, PHOTON_SPHERE + 70, r), ONE),
           550 + MulDiv(250, detail, ONE) + MulDiv(200, detail, ONE), ONE)

\* the background after "background *= holeMask"
MaskedBackground(f) ==
    IF f.variant = "rotating"
    THEN LET ring == LensingRing(f.r, f.noise)
             dimmed == FMul(FMul(f.background, ONE - MulDiv(ring, 250, ONE)),
                            ONE - MulDiv(PhotonShadow(f.r, f.noise), 400, ONE))
         IN  FAdd(FMul(dimmed, HoleMask(f.variant, f.r)),
                  FMul(FMul(FMul(f.pal, ring), 80), 600 + f.lensTerm))
    ELSE FMul(f.background, HoleMask(f.variant, f.r))

InnerMask(variant, r) ==
    CASE variant = "rotating" -> Smoothstep(EVENT_HORIZON, 380, r)
      [] variant = "cinematic" -> ONE
      [] OTHER -> Smoothstep(160, 300, r)

OuterMask(variant, r) ==
    CASE variant = "enhanced" -> ONE - Smoothstep(820, 1080, r)
      [] variant = "rotating" -> ONE - Smoothstep(840, 1100, r)
      [] variant = "cinematic" -> ONE
      [] OTHER -> ONE - Smoothstep(900, 1200, r)

\* sqrt of a value in thousandths, by Newton's iteration from above
RECURSIVE SqrtFrom(_, _)
SqrtFrom(n, x) ==
    LET y == (x + n \div x) \div 2
    IN  IF y >= x THEN x ELSE SqrtFrom(n, y)

Sqrt(x) == IF x <= 0 THEN 0 ELSE SqrtFrom(x * ONE, x * ONE)

\* rotationSpeed = 1.0 / sqrt(r + 0.1) of the enhanced program
rotationSpeed(r) == (ONE * ONE) \div Sqrt(r + 100)

\* The angle the disk's pattern at the pixel's radius has turned by at the
\* frame's time: what each program subtracts from the angle it samples the
\* disk at (loopAngle * 1.1 * rotationSpeed, u_elapsed * 0.15, spin,
\* loopAngle * 1.15 and loopAngle * 0.8).
DiskPhase(f) ==
    CASE f.variant = "enhanced" ->
             MulDiv(MulDiv(f.loopAngle, 1100, ONE), rotationSpeed(f.r), ONE)
      [] f.variant = "rotating" -> MulDiv(f.u_elapsed, 150, ONE)
      [] f.variant = "part002" -> MulDiv(f.loopAngle, 1150, ONE)
      [] f.variant = "part003" -> MulDiv(f.loopAngle, 800, ONE)
      [] OTHER -> MulDiv(f.u_elapsed, 2350, ONE)

\* the radii between the edges of each program's diskBand
DiskBand(variant) ==
    CASE variant = "rotating" -> 296 .. 919
      [] variant = "part003" -> 221 .. 949
      [] variant = "cinematic" -> 241 .. 799
      [] OTHER -> 201 .. 779

\* the programs that tint the disk by the Doppler factor
TintedVariants == {"enhanced", "rotating"}

\* the factor the Doppler tint is blended by: approach, or
\* saturate(0.5 + 0.5 * cosView) with cosView = sin(angle) * sin(inclination)
ApproachOf(f) ==
    IF f.variant = "rotating"
    THEN Max(0, Min(ONE, 500 + MulDiv(500, MulDiv(Sin(f.terms.angle), Sin(720), ONE), ONE)))
    ELSE f.terms.approach

\* dopplerTint for a blend factor: mix(warmTint, coolTint, approach) in the
\* enhanced program, mix(coolTint, warmTint, factor) in the rotating one
DopplerTint(variant, factor) ==
    IF variant = "rotating"
    THEN << Mix(500, 1350, factor), Mix(700, 820, factor), Mix(1200, 500, factor) >>
    ELSE << Mix(1250, 650, factor), Mix(780, 820, factor), Mix(550, 1200, factor) >>

\* What u_jetIntensity is multiplied by in the jets: jetUnit stands for
\* jetColor * jetAngular * jetFocus (and for plasmaColor * jetAxis), the rest
\* is jetCore, the noise factor, jetPulse and the mix over jetBias or viewBias.
JetFactor(f) ==
    LET core == MulDiv(Smoothstep(180, 350, f.r), ONE - Smoothstep(380, 950, f.r), ONE)
        jetBias == Max(0, Min(ONE, 600 + MulDiv(400, Sin(f.angle + 350), ONE)))
        viewBias == Max(0, Min(ONE, 500 + MulDiv(450, Sin(f.angle + 500), ONE)))
    IN  CASE f.variant = "cinematic" -> 0
          [] f.variant = "enhanced" ->
                 FMul(FMul(FMul(FMul(f.jetUnit, core), 300 + MulDiv(670, f.noise, ONE)),
                           f.terms.jetPulse),
                      Mix(400, 850, jetBias))
          [] f.variant = "rotating" ->
                 LET turned == Max(0, Min(ONE, 600 + MulDiv(400, Sin(f.terms.angle + 350), ONE)))
                     beamCore == MulDiv(Smoothstep(PHOTON_SPHERE + 20, 420, f.r),
                                        ONE - Smoothstep(560, 1050, f.r), ONE)
                     plasma == MulDiv(Smoothstep(320, 540, f.r),
                                      ONE - Smoothstep(600, 1100, f.r), ONE)
                 IN  FAdd(FMul(FMul(FMul(FMul(f.jetUnit, beamCore), 500 + MulDiv(500, f.noise, ONE)),
                                    Mix(450, 900, turned)),
                               600 + MulDiv(f.lensTerm, 400, ONE)),
                          FMul(FMul(FMul(f.jetUnit, plasma), 900 + MulDiv(300, f.noise, ONE)),
                               1050))
          [] OTHER ->
                 FMul(FMul(FMul(FMul(f.jetUnit, core), 350 + MulDiv(650, f.noise, ONE)),
                           f.terms.jetPulse),
                      Mix(350, 950, viewBias))

\* a jet layer that fades as the intensity grows
Jets_fading(f) == FMul(JetFactor(f), FAdd(ONE, FNeg(f.u_jetIntensity)))

\* the jets
Jets(f) == FMul(JetFactor(f), f.u_jetIntensity)

\* emission after "emission *= innerMask * outerMask"
Emission(f) ==
    FMul(FAdd(f.rest, Jets(f)),
         MulDiv(InnerMask(f.variant, f.r), OuterMask(f.variant, f.r), ONE))

\* color before tone mapping
Composite(f) ==
    IF f.variant = "cinematic"
    THEN Mix(0, FAdd(f.background, Emission(f)), HoleMask(f.variant, f.r))
    ELSE FAdd(f.background, Emission(f))

Exposure(variant) ==
    CASE variant \in {"enhanced", "rotating"} -> 1650
      [] variant = "cinematic" -> 1400
      [] OTHER -> 1700

\* what filmic takes off the colour before the floor: 0.004 in the
\* cinematic program, nothing in the others
FilmicToe(variant) == IF variant = "cinematic" THEN 4 ELSE 0

ToneMapped(f) ==
    IF f.variant = "cinematic"
    THEN Pow(f.build, Filmic(f.build, FMul(f.color, Exposure(f.variant)), FilmicToe(f.variant)), 920)
    ELSE Filmic(f.build, FMul(f.color, Exposure(f.variant)), FilmicToe(f.variant))

\* the bases pow() is given while the pixel is shaded: centered.y * 2.8 in
\* part_002, the tone-mapped colour in the cinematic program
PowBases(f) ==
    CASE f.variant = "part002" -> { MulDiv(f.cy, 2800, ONE) }
      [] f.variant = "cinematic" /\ f.stage \in {"toned", "done"} ->
             { Filmic(f.build, FMul(f.linear, Exposure(f.variant)), 4) }
      [] OTHER -> {}

\* the denominator of the filmic curve for the colour c
FilmicDenominator(c) == FAdd(FMul(c, FAdd(FMul(6200, c), 1700)), 60)

driverVars == << driver, pc, vertexShader, fragmentShader, idx, sources, ctx2d,
                 combinedPalette, uniforms, windowSize, rendererSize, listening, clock,
                 rafPending, lastFrame, prevFrame >>

ShaderInit ==
    /\ frag \in UNION { InputsOf(v) : v \in Variants }
    /\ driver = "main"
    /\ pc = "rendering"
    /\ vertexShader = "glsl"
    /\ fragmentShader = "glsl"
    /\ idx = NumCandidates + 1
    /\ sources = <<>>
    /\ ctx2d = "unset"
    /\ combinedPalette = NULL
    /\ uniforms = NULL
    /\ windowSize = FixedSize
    /\ rendererSize = FixedSize
    /\ listening = FALSE
    /\ clock = 0
    /\ rafPending = 0
    /\ lastFrame = NULL
    /\ prevFrame = NULL

\* the orbit vectors and the other periodic terms at the head of main()
sampleTime ==
    /\ frag.stage = "start"
    /\ frag' = [frag EXCEPT !.terms = TimeTerms(frag), !.stage = "timed"]
    /\ UNCHANGED driverVars

shadeBackground ==
    /\ frag.stage = "timed"
    /\ frag' = [frag EXCEPT !.background = Background(frag), !.stage = "background"]
    /\ UNCHANGED driverVars

maskHole ==
    /\ frag.stage = "background"
    /\ frag.variant \in MaskedVariants
    /\ frag' = [frag EXCEPT !.holeMask = HoleMask(frag.variant, frag.r),
                            !.background = MaskedBackground(frag),
                            !.stage = "masked"]
    /\ UNCHANGED driverVars

addEmission ==
    /\ \/ frag.stage = "masked"
       \/ frag.stage = "background" /\ frag.variant \notin MaskedVariants
    /\ frag' = [frag EXCEPT !.holeMask = IF frag.variant = "cinematic"
                                          THEN HoleMask(frag.variant, frag.r) ELSE @,
                            !.tint = IF frag.variant \in TintedVariants
                                     THEN DopplerTint(frag.variant, ApproachOf(frag)) ELSE @,
                            !.jets = Jets(frag),
                            !.emission = Emission(frag),
                            !.linear = Composite(frag),
                            !.color = Composite(frag),
                            !.stage = "composited"]
    /\ UNCHANGED driverVars

toneMap ==
    /\ frag.stage = "composited"
    /\ frag' = [frag EXCEPT !.color = ToneMapped(frag), !.stage = "toned"]
    /\ UNCHANGED driverVars

writeFragColor ==
    /\ frag.stage = "toned"
    /\ frag' = [frag EXCEPT !.fragColor = [rgb |-> FClamp(frag.build, frag.color, 0, ONE),
                                           a |-> ONE],
                            !.stage = "done"]
    /\ UNCHANGED driverVars

ShaderNext ==
    \/ sampleTime
    \/ shadeBackground
    \/ maskHole
    \/ addEmission
    \/ toneMap
    \/ writeFragColor

ShaderSpec == ShaderInit /\ [][ShaderNext]_vars

(* ----------------------- the pixel at the centre ---------------------- *)
\* The warp stage computed for v_uv = (0.5, 0.5) with the default parameters.
\* atan(y, x) is undefined by GLSL ES when x and y are both 0: a build gives
\* a finite angle (0 or pi/2 here) or NaN (0/0 inside the routine).
CentreBuilds == [minmax : MinMaxRules, atan00 : {0, HalfPi, NaN}]

\* atan(y, x); off the axes by z * pi/4 + 0.273 * z * (1 - z) for z in [0, 1]
Atan(build, y, x) ==
    LET unit(z) == MulDiv(z, 785, ONE) + MulDiv(MulDiv(273, z, ONE), ONE - z, ONE)
        ax == Abs(x)
        ay == Abs(y)
        first == IF ay <= ax THEN unit(MulDiv(ay, ONE, ax))
                 ELSE HalfPi - unit(MulDiv(ax, ONE, ay))
        upper == IF x >= 0 THEN first ELSE PI - first
    IN  IF IsNaN(y) \/ IsNaN(x) THEN NaN
        ELSE IF x = 0 /\ y = 0 THEN build.atan00
        ELSE IF y >= 0 THEN upper ELSE -upper

\* length(p)
Length(p) ==
    IF IsNaN(p[1]) \/ IsNaN(p[2]) THEN NaN
    ELSE LET n == p[1] * p[1] + p[2] * p[2]
         IN  (CHOOSE k \in 0..(Abs(p[1]) + Abs(p[2])) :
                  k * k <= n /\ n < (k + 1) * (k + 1))

\* p * k + c on both components: uv * 2.0 - 1.0, p * 0.5 + 0.5, p * factor
Affine(p, k, c) == << FAdd(FMul(p[1], k), c), FAdd(FMul(p[2], k), c) >>

\* mix(a, b, t) of two vec2
Mix2(a, b, t) == << Mix(a[1], b[1], t), Mix(a[2], b[2], t) >>

\* smoothstep(edge0, edge1, x) where x may be NaN:
\* t = clamp((x - edge0) / (edge1 - edge0), 0.0, 1.0), t * t * (3.0 - 2.0 * t)
FSmoothstep(build, edge0, edge1, x) ==
    IF IsNaN(x)
    THEN LET t == FClamp(build, x, 0, ONE)
         IN  FMul(FMul(t, t), FAdd(3 * ONE, FNeg(FMul(2 * ONE, t))))
    ELSE Smoothstep(edge0, edge1, x)

lensWarp(uv, strength) ==
    LET p == Affine(uv, 2 * ONE, -ONE)
        r2 == FAdd(FMul(p[1], p[1]), FMul(p[2], p[2]))
        factor == FAdd(ONE, FDiv(strength, FAdd(r2, 220)))
    IN  Affine(Affine(p, factor, 0), 500, 500)

\* swirl(uv, strength); gain is the 2.8 of blackhole.frag.glsl, 1.0 elsewhere
swirl(build, uv, strength, gain) ==
    LET fsin(a) == IF IsNaN(a) THEN NaN ELSE Sin(a)
        p == Affine(uv, 2 * ONE, -ONE)
        r == Length(p)
        s == FMul(FMul(strength, FSmoothstep(build, 80, ONE, r)), gain)
        theta == FAdd(Atan(build, p[2], p[1]), s)
        rotated == << FMul(fsin(FAdd(theta, HalfPi)), r), FMul(fsin(theta), r) >>
    IN  Affine(rotated, 500, 500)

tiltedPolar(build, uv) ==
    LET p == Affine(uv, 2 * ONE, -ONE)
        c == Cos(180)
        s == Sin(180)
        q == << FMul(FAdd(FMul(p[1], c), FNeg(FMul(p[2], s))), 1040),
                FMul(FAdd(FMul(p[1], s), FMul(p[2], c)), 900) >>
    IN  [ r |-> Length(q), angle |-> Atan(build, q[2], q[1]) ]

\* gravitationalLens(uv, schwarzschildRadius, lensStrength, out lensTerm) for
\* a finite uv.  safeR is max(r, 1e-4), the floor rounded up to the grid; in a
\* product with the large invR the larger factor is divided first, which keeps
\* the product inside the 32-bit integers of TLC.
gravitationalLens(build, uv, schwarzschildRadius, lensStrength) ==
    LET wide(a, b) == IF Abs(a) < 30000 /\ Abs(b) < 30000 THEN MulDiv(a, b, ONE)
                      ELSE IF Abs(b) >= Abs(a) THEN a * (b \div ONE)
                      ELSE (a \div ONE) * b
        p == Affine(uv, 2 * ONE, -ONE)
        r == Length(p)
        safeR == Max(r, 1)
        invR == (ONE * ONE) \div safeR
        bend == FClamp(build,
                       wide(lensStrength, wide(wide(schwarzschildRadius, invR), invR)),
                       0, 850)
        caustic == Smoothstep(MulDiv(schwarzschildRadius, 750, ONE),
                              MulDiv(schwarzschildRadius, 1350, ONE), r)
        lensTerm == MulDiv(bend, caustic, ONE)
        warped == << p[1] + wide(wide(p[1], invR), lensTerm),
                     p[2] + wide(wide(p[2], invR), lensTerm) >>
    IN  [ uv |-> Affine(warped, 500, 500), lensTerm |-> lensTerm ]

CentreVariants == MaskedVariants

CentreInit ==
    /\ frag \in [ kind : {"centre"}, build : CentreBuilds, variant : CentreVariants,
                  uv : {<< 500, 500 >>},
                  u_warp : {DefaultWarp * 10},
                  u_jetIntensity : {DefaultJetIntensity * 10},
                  u_elapsed : {0},
                  pal : PaletteLevels, noise : NoiseLevels, bg : BackgroundLevels,
                  rest : EmissionLevels, jetUnit : JetShapes,
                  stage : {"start"}, lensTerm : {0}, r : {0}, angle : {0},
                  holeMask : {ONE}, innerMask : {ONE}, background : {0},
                  emission : {0}, linear : {0}, fragColor : {NULL} ]
    /\ driver = "main"
    /\ pc = "rendering"
    /\ vertexShader = "glsl"
    /\ fragmentShader = "glsl"
    /\ idx = NumCandidates + 1
    /\ sources = <<>>
    /\ ctx2d = "unset"
    /\ combinedPalette = NULL
    /\ uniforms = NULL
    /\ windowSize = FixedSize
    /\ rendererSize = FixedSize
    /\ listening = FALSE
    /\ clock = 0
    /\ rafPending = 0
    /\ lastFrame = NULL
    /\ prevFrame = NULL

\* lensUV, warped, swirled and polar of main()
warpCentre ==
    /\ frag.kind = "centre"
    /\ frag.stage = "start"
    /\ LET b == frag.build
           w == frag.u_warp
           rotating == frag.variant = "rotating"
           lens == IF rotating
                   THEN gravitationalLens(b, frag.uv, PHOTON_SPHERE, Mix(380, 650, w))
                   ELSE [ uv |-> frag.uv, lensTerm |-> 0 ]
           warped == IF rotating
                     THEN Mix2(lens.uv, lensWarp(lens.uv, 80 + MulDiv(50, w, ONE)), 350)
                     ELSE Mix2(frag.uv, lensWarp(frag.uv, 60 + MulDiv(40, w, ONE)), 350)
           swirled == CASE rotating ->
                               Mix2(warped,
                                    swirl(b, warped, 80 + MulDiv(w, 180, ONE), 2800), 550)
                        [] frag.variant = "enhanced" ->
                               swirl(b, warped, 120 + MulDiv(w, 300, ONE), 2800)
                        [] OTHER -> swirl(b, warped, 120 + MulDiv(w, 300, ONE), ONE)
           polar == tiltedPolar(b, swirled)
       IN  frag' = [frag EXCEPT !.lensTerm = lens.lensTerm,
                                !.r = polar.r,
                                !.angle = polar.angle,
                                !.stage = "warped"]
    /\ UNCHANGED driverVars

\* holeMask, the masked background, innerMask * outerMask and the sum.  The
\* rotating program's background reads atan(centered.y, centered.x) as well,
\* and every emissive layer reads r or angle.
shadeCentre ==
    /\ frag.kind = "centre"
    /\ frag.stage = "warped"
    /\ LET b == frag.build
           v == frag.variant
           noRadius == IsNaN(frag.r)
           lost == noRadius \/ IsNaN(frag.angle)
           hole == IF noRadius
                   THEN FSmoothstep(b, 0, ONE, frag.r)
                   ELSE HoleMask(v, frag.r)
           inner == IF noRadius
                    THEN FSmoothstep(b, 0, ONE, frag.r)
                    ELSE InnerMask(v, frag.r)
           outer == IF noRadius
                    THEN FAdd(ONE, FNeg(FSmoothstep(b, 0, ONE, frag.r)))
                    ELSE OuterMask(v, frag.r)
           before == IF v = "rotating" /\ IsNaN(Atan(b, 0, 0)) THEN NaN ELSE frag.bg
           masked == IF v = "rotating" /\ lost THEN NaN
                     ELSE IF noRadius THEN FMul(before, hole)
                     ELSE MaskedBackground([frag EXCEPT !.background = before])
           layers == IF lost THEN NaN
                     ELSE FAdd(frag.rest, FMul(frag.jetUnit, frag.u_jetIntensity))
           masks == FMul(inner, outer)
       IN  frag' = [frag EXCEPT !.holeMask = hole,
                                !.innerMask = inner,
                                !.background = masked,
                                !.emission = FMul(layers, masks),
                                !.linear = FAdd(masked, FMul(layers, masks)),
                                !.stage = "composited"]
    /\ UNCHANGED driverVars

\* filmic(color * exposure), clamp and gl_FragColor
writeCentre ==
    /\ frag.kind = "centre"
    /\ frag.stage = "composited"
    /\ LET toned == Filmic(frag.build, FMul(frag.linear, Exposure(frag.variant)), 0)
       IN  frag' = [frag EXCEPT !.fragColor = [rgb |-> FClamp(frag.build, toned, 0, ONE),
                                               a |-> ONE],
                                !.stage = "done"]
    /\ UNCHANGED driverVars

CentreNext ==
    \/ warpCentre
    \/ shadeCentre
    \/ writeCentre

CentreSpec == CentreInit /\ [][CentreNext]_vars

(* ============================== claims ================================ *)

\* init() has got past the palette: the local combinedPalette is final
PaletteDone == pc \in {"release", "uniforms", "listen", "firstFrame", "running"}

\* the colours of a texture, alpha dropped
ColoursOf(tex) == { SubSeq(tex.data[i], 1, 3) : i \in 1..Len(tex.data) }

\* every byte of a texture is there and is a byte
Complete(tex) ==
    /\ tex.kind \in {"combined", "fallback"}
    /\ Len(tex.data) = tex.width * tex.height
    /\ \A i \in 1..Len(tex.data) : \A c \in 1..Len(tex.data[i]) : tex.data[i][c] \in 0..255

\* the uniforms a frame does not derive from the clock
NonTime(u) ==
    << u.u_baseTexture, u.u_acceleration, u.u_warp, u.u_jetIntensity, u.u_resolution >>

\* C2: in the main.js driver, which has no u_elapsed, two frames rendered with
\* the same parameters whose scaled clock values elapsed * acceleration differ
\* by a whole multiple of LOOP_DURATION get the same u_time and u_cycle.
C2_LoopSeamless ==
    ( /\ driver = "main"
      /\ lastFrame # NULL
      /\ prevFrame # NULL
      /\ prevFrame.speed = lastFrame.uniforms.u_acceleration
      /\ (lastFrame.elapsed * prevFrame.speed - prevFrame.elapsed * prevFrame.speed)
            % LOOP_DURATION = 0 )
    => /\ lastFrame.uniforms.u_time = prevFrame.u_time
       /\ lastFrame.uniforms.u_cycle = prevFrame.u_cycle
       /\ "u_elapsed" \notin DOMAIN lastFrame.uniforms

\* two frames a whole loop apart, at the default acceleration
C2_Witness ==
    /\ driver = "main"
    /\ lastFrame # NULL
    /\ prevFrame # NULL
    /\ prevFrame.speed = DefaultAcceleration
    /\ lastFrame.uniforms.u_acceleration = DefaultAcceleration
    /\ lastFrame.elapsed * DefaultAcceleration
         = prevFrame.elapsed * DefaultAcceleration + LOOP_DURATION

\* C4: in every rendered frame u_cycle is ((elapsed * u_acceleration) mod
\* LOOP_DURATION) / LOOP_DURATION and lies in [0,1), and u_time is 2*pi*u_cycle,
\* whatever value u_acceleration holds.
C4_PhaseInUnitInterval ==
    lastFrame # NULL =>
       LET u == lastFrame.uniforms
       IN  /\ u.u_cycle = (((lastFrame.elapsed * u.u_acceleration) % LOOP_DURATION)
                            * PhaseOne) \div LOOP_DURATION
           /\ u.u_cycle >= 0
           /\ u.u_cycle < PhaseOne
           /\ u.u_time = (2 * u.u_cycle * TAU + PhaseOne) \div (2 * PhaseOne)

\* C5: whenever renderer.render is called, every candidate load has settled
\* and u_baseTexture holds the completely built ramp, the one init built.
C5_RampBuiltBeforeFirstRender ==
    lastFrame # NULL =>
       /\ idx = NumCandidates + 1
       /\ lastFrame.entry.u_baseTexture # NULL
       /\ lastFrame.uniforms.u_baseTexture = combinedPalette
       /\ Complete(lastFrame.uniforms.u_baseTexture)

\* the first frame has been rendered with a ramp combined from images
C5_Witness ==
    /\ lastFrame # NULL
    /\ prevFrame = NULL
    /\ lastFrame.uniforms.u_baseTexture.kind = "combined"

\* C6: with no usable source, or without a 2D canvas context, the palette is
\* the fallback ramp of the four colours (5,3,12), (12,6,20), (42,20,70),
\* (160,120,200), at least 2 of them distinct, and it is the one the shader gets.
C6_FallbackWhenNothingUsable ==
    (PaletteDone /\ (Usable(sources) = <<>> \/ ctx2d = "none")) =>
       /\ combinedPalette.kind = "fallback"
       /\ ColoursOf(combinedPalette)
            = { FallbackColours[i] : i \in 1..Len(FallbackColours) }
       /\ Cardinality(ColoursOf(combinedPalette)) >= 2
       /\ uniforms # NULL => uniforms.u_baseTexture = combinedPalette

\* a frame rendered after every candidate failed to load
C6_Witness ==
    /\ lastFrame # NULL
    /\ Usable(sources) = <<>>
    /\ lastFrame.uniforms.u_baseTexture.kind = "fallback"

\* C7: an image that fails to load or to be read never aborts init: all
\* candidates are attempted, one after the other, and once the shaders are
\* fetched init reaches animate() and the first frame is rendered.
C7_ImageFailureNeverAborts ==
    /\ [](PaletteDone => idx = NumCandidates + 1)
    /\ [][pc = "loadImages" => (idx' = idx \/ idx' = idx + 1)]_vars
    /\ (pc = "loadImages") ~> (lastFrame # NULL)

\* the first frame rendered although no candidate could be used
C7_Witness ==
    /\ lastFrame # NULL
    /\ Len(sources) < NumCandidates
    /\ Usable(sources) = <<>>
    /\ idx = NumCandidates + 1

\* C8: once the ramp is in u_baseTexture no step replaces or modifies it, and
\* animate writes only the time uniforms.
C8_FrameWritesOnlyTime ==
    /\ [][uniforms # NULL =>
            /\ uniforms'.u_baseTexture = uniforms.u_baseTexture
            /\ combinedPalette' = combinedPalette]_vars
    /\ [](lastFrame # NULL => NonTime(lastFrame.uniforms) = NonTime(lastFrame.entry))

\* a frame that changed the time uniforms
C8_Witness ==
    /\ lastFrame # NULL
    /\ lastFrame.uniforms.u_cycle # lastFrame.entry.u_cycle
    /\ lastFrame.uniforms.u_time # lastFrame.entry.u_time

\* mean over the ramp of (r + g + b) / 3, with FP = 1.0
MeanBrightness(tex) ==
    LET perPixel == [i \in 1..Len(tex.data) |->
                       ((tex.data[i][1] + tex.data[i][2] + tex.data[i][3]) * FP) \div (3 * 255)]
    IN  SumSeq(perPixel) \div Len(tex.data)

\* one byte of rounding per channel
BrightnessTolerance == FP \div 100

\* C9: the ramp createCombinedPalette returns has its mean brightness at the
\* target brightness, in both drivers, whatever the images.
C9_RampBrightnessNormalized ==
    (PaletteDone /\ combinedPalette.kind = "combined") =>
       Abs(MeanBrightness(combinedPalette) - targetBrightness) <= BrightnessTolerance

\* the fragment colour has been written
Shaded == frag.kind = "fragment" /\ frag.stage = "done"

\* C1: every channel of gl_FragColor is in [0, 1] and alpha is 1, for every
\* pixel, every time and every parameter value, in every fragment program.
C1_FragColorInUnitRange ==
    Shaded =>
       /\ ~IsNaN(frag.fragColor.rgb)
       /\ frag.fragColor.rgb >= 0
       /\ frag.fragColor.rgb <= ONE
       /\ frag.fragColor.a = ONE

\* closeness of two records of terms, to a hundredth
LoopTolerance == ONE \div 100
TermsClose(a, b) == \A k \in DOMAIN a : Abs(a[k] - b[k]) <= LoopTolerance

\* C3: in the looping programs every term that changes with time has the same
\* value at loopAngle = 2*pi (cycle 1) as at loopAngle = 0 (cycle 0).
C3_TermsPeriodic ==
    ( /\ frag.kind = "fragment"
      /\ frag.variant \in LoopingVariants
      /\ frag.stage # "start"
      /\ frag.loopAngle = TAU )
    => TermsClose(frag.terms, TimeTerms([frag EXCEPT !.loopAngle = 0]))

\* C10: in every program the hole mask is exactly 0 at radii up to 0.22 and
\* exactly 1 from 0.29 on.
C10_HoleMaskEdges ==
    (frag.kind = "fragment" /\ frag.stage \in {"composited", "toned", "done"}) =>
       /\ frag.r <= EVENT_HORIZON => frag.holeMask = 0
       /\ frag.r >= PHOTON_SPHERE => frag.holeMask = ONE

\* C11: at every pixel whose warped radius is at most the event-horizon
\* constant nothing is visible: the background is zero once the hole mask has
\* been applied and the colour written is black.
C11_NothingVisibleInsideHorizon ==
    ( /\ Shaded
      /\ frag.variant \in MaskedVariants \cup {"cinematic"}
      /\ frag.r <= EVENT_HORIZON )
    => /\ frag.variant \in MaskedVariants => frag.background = 0
       /\ frag.fragColor.rgb = 0

\* the radius at which the outer fade of the emission ends
OuterFadeEnd(variant) ==
    CASE variant = "enhanced" -> 1080
      [] variant = "rotating" -> 1100
      [] OTHER -> 1200

\* C12: the linear colour is the masked background plus the emission times
\* innerMask * outerMask, and that emission term is exactly zero at radii up to
\* the event-horizon constant and from the end of the outer fade on.
C12_EmissionMaskedOutside ==
    ( /\ frag.kind = "fragment"
      /\ frag.stage \in {"composited", "toned", "done"}
      /\ frag.variant # "cinematic" )
    => /\ frag.linear = FAdd(frag.background, frag.emission)
       /\ frag.r <= EVENT_HORIZON => frag.emission = 0
       /\ frag.r >= OuterFadeEnd(frag.variant) => frag.emission = 0

\* C13: at the image centre, with the default parameters and elapsed = 0, the
\* warp stage gives radius 0, holeMask and innerMask are 0 and every channel
\* of the colour written is below 0.02, whatever the ramp.
C13_CentreIsBlack ==
    (frag.kind = "centre" /\ frag.stage = "done")
    => /\ frag.r = 0
       /\ frag.holeMask = 0
       /\ frag.innerMask = 0
       /\ frag.fragColor.rgb < 20

\* C14: every pow has a base that is not negative, the division of the filmic
\* curve has a denominator above zero, and no NaN or infinity arises in the
\* background, the linear colour or the colour written.
C14_OperandsGuarded ==
    (frag.kind = "fragment" /\ frag.stage # "start" /\ frag.stage # "timed")
    => /\ \A base \in PowBases(frag) : ~IsNaN(base) /\ base >= 0
       /\ ~IsNaN(frag.background) /\ ~IsInf(frag.background)
       /\ frag.stage \in {"composited", "toned", "done"}
              => /\ ~IsNaN(frag.linear) /\ ~IsInf(frag.linear)
                 /\ FilmicDenominator(FMax(frag.build, 0, FMul(frag.linear, Exposure(frag.variant)))) > 0
       /\ frag.stage = "done"
              => ~IsNaN(frag.fragColor.rgb) /\ ~IsInf(frag.fragColor.rgb)

\* values of u_jetIntensity across its domain [0, 2]
JetDomain == {0, 500, 1050, 2 * ONE}

\* C15: with the pixel, the clock, the ramp and the other parameters fixed the
\* jets do not decrease as u_jetIntensity grows over [0, 2]: they are
\* u_jetIntensity times a factor that is not negative, and zero at intensity 0.
C15_JetsMonotoneInIntensity ==
    ( /\ frag.kind = "fragment"
      /\ frag.stage \in {"composited", "toned", "done"}
      /\ frag.u_jetIntensity \in 0..(2 * ONE) )
    => /\ JetFactor(frag) >= 0
       /\ frag.jets = FMul(JetFactor(frag), frag.u_jetIntensity)
       /\ Jets([frag EXCEPT !.u_jetIntensity = 0]) = 0
       /\ \A j \in JetDomain :
              /\ j <= frag.u_jetIntensity
                     => Jets([frag EXCEPT !.u_jetIntensity = j]) <= frag.jets
              /\ j >= frag.u_jetIntensity
                     => Jets([frag EXCEPT !.u_jetIntensity = j]) >= frag.jets

\* a pixel inside the jets, lit at the default intensity
C15_Witness ==
    /\ frag.kind = "fragment"
    /\ frag.stage = "done"
    /\ frag.u_jetIntensity = 1050
    /\ frag.jets > 0
    /\ Jets([frag EXCEPT !.u_jetIntensity = 2 * ONE]) > frag.jets

\* C16: the uniforms a frame is rendered with are what one write of the time
\* uniforms gives from freshly made uniforms, the frame's clock reading and the
\* current parameters; a frame at the same reading and acceleration as the one
\* before it has the same time uniforms.
C16_UniformsFromClockAndParameters ==
    lastFrame # NULL =>
       LET u == lastFrame.uniforms
           fresh == [NewUniforms(driver, u.u_baseTexture, u.u_resolution)
                        EXCEPT !.u_acceleration = u.u_acceleration]
       IN  /\ u = TimeUniforms(fresh, driver, lastFrame.elapsed)
           /\ ( /\ prevFrame # NULL
                /\ prevFrame.elapsed = lastFrame.elapsed
                /\ prevFrame.speed = u.u_acceleration )
              => TimeInputs(lastFrame) = prevFrame

\* a frame rendered after a frame with another clock reading and another
\* acceleration
C16_Witness ==
    /\ lastFrame # NULL
    /\ prevFrame # NULL
    /\ prevFrame.elapsed < lastFrame.elapsed
    /\ prevFrame.speed # lastFrame.uniforms.u_acceleration
    /\ prevFrame.u_cycle # 0

\* C17: a frame reads the clock once; u_cycle, u_time and u_elapsed all come
\* from that reading and are in the uniforms when renderer.render is called.
C17_OneClockReadingPerFrame ==
    [][lastFrame' # lastFrame =>
          LET u == lastFrame'.uniforms
              t == clock'
          IN  /\ lastFrame'.elapsed = t
              /\ u = uniforms'
              /\ u.u_cycle = Phase(t, u.u_acceleration)
              /\ u.u_time = MulDiv(Phase(t, u.u_acceleration), TAU, PhaseOne)
              /\ driver = "part001" => u.u_elapsed = t * u.u_acceleration]_vars

\* a second frame of the unwrapped driver, at a later clock reading
C17_Witness ==
    /\ driver = "part001"
    /\ lastFrame # NULL
    /\ prevFrame # NULL
    /\ lastFrame.elapsed > prevFrame.elapsed
    /\ lastFrame.uniforms.u_elapsed # prevFrame.u_elapsed
    /\ lastFrame.uniforms.u_cycle # lastFrame.entry.u_cycle

\* the declared domain of the acceleration, in tenths
AccelDomain == 2..30

\* C20: u_elapsed does not decrease from one frame to the next, whatever the
\* acceleration is set to between the frames.
C20_ElapsedNonDecreasing ==
    ( /\ driver = "part001"
      /\ lastFrame # NULL
      /\ prevFrame # NULL
      /\ prevFrame.speed \in AccelDomain
      /\ lastFrame.uniforms.u_acceleration \in AccelDomain )
    => lastFrame.uniforms.u_elapsed >= prevFrame.u_elapsed

\* C18: in every program the colour written is the clamp to [0,1] of the
\* filmic curve c(6.2c+0.5)/(c(6.2c+1.7)+0.06) of the linear sum of background
\* and masked emission times an exposure constant in [1.4, 1.7], with nothing
\* else applied before the sum or between the curve and the clamp.
C18_SumExposureFilmicClamp ==
    (frag.kind = "fragment" /\ frag.stage = "done")
    => LET sum == FAdd(frag.background, frag.emission)
           exposure == Exposure(frag.variant)
           curve == Filmic(frag.build, FMul(frag.linear, exposure), 0)
       IN  /\ frag.linear = IF frag.variant = "cinematic"
                            THEN Mix(0, sum, frag.holeMask) ELSE sum
           /\ exposure \in 1400..1700
           /\ frag.color = curve
           /\ frag.fragColor.rgb = FClamp(frag.build, curve, 0, ONE)

\* values of u_time a frame can be rendered with
CycleProbes == {0, HalfPi, PI}

\* C19: in the rotating program the angle of the disk and the jets comes from
\* the unwrapped u_elapsed, and u_cycle and u_time reach the picture through
\* the starfield twinkle only: with u_elapsed fixed, no term of the nebula,
\* the inflow fog, the outer envelope, the halo, the disk or the jets changes
\* with them.
C19_CycleOnlyInTwinkle ==
    (frag.kind = "fragment" /\ frag.variant = "rotating" /\ frag.stage # "start")
    => /\ frag.terms.angle = frag.angle - MulDiv(frag.u_elapsed, 150, ONE)
       /\ \A la \in CycleProbes :
             \A k \in DOMAIN frag.terms \ {"twinkle"} :
                TimeTerms([frag EXCEPT !.loopAngle = la])[k] = frag.terms[k]

\* C21: the Doppler tint is the blend by the approach factor whose end at
\* factor 1, the side turning toward the viewer, is the warm tint (red above
\* blue) and whose end at factor 0 is the cool tint (blue above red).
C21_WarmTowardViewer ==
    ( /\ frag.kind = "fragment"
      /\ frag.variant \in TintedVariants
      /\ frag.stage \in {"composited", "toned", "done"} )
    => LET toward == DopplerTint(frag.variant, ONE)
           away == DopplerTint(frag.variant, 0)
           factor == ApproachOf(frag)
       IN  /\ toward[1] > toward[3]
           /\ away[3] > away[1]
           /\ \A ch \in 1..3 : frag.tint[ch] = Mix(away[ch], toward[ch], factor)

\* radii the rotation of the disk is compared at, beside the pixel's own
DiskProbes == {300, 500, 700}

\* C22: of two radii inside the disk band the smaller one turns faster: once
\* time has passed, the disk at the pixel's radius has turned by strictly
\* more than the disk at any larger radius of the band.
C22_InnerDiskTurnsFaster ==
    ( /\ frag.kind = "fragment"
      /\ frag.stage # "start"
      /\ frag.loopAngle > 0
      /\ frag.u_elapsed > 0
      /\ frag.r \in DiskBand(frag.variant) )
    => \A r2 \in (RadiusSamples \cup DiskProbes) \cap DiskBand(frag.variant) :
           frag.r < r2 => DiskPhase(frag) > DiskPhase([frag EXCEPT !.r = r2])

\* C23: the background colour accumulated for a pixel, just before it is
\* multiplied by the hole mask, is a number below 0.1.
C23_BackgroundBelowTenth ==
    ( /\ frag.kind = "fragment"
      /\ frag.stage = "background" )
    => /\ ~IsNaN(frag.background)
       /\ frag.background < ONE \div 10

\* the sources that were read without error, in the order they were loaded
ReadSources == SelectSeq(sources, LAMBDA src : src.readable)

\* The arithmetic mean over a list of sources of the colour sampled in column
\* x, channel c: all rows of the image in main.js, whose canvas has one row,
\* the rows of the 32%..68% band in the normalizing builder.
MeanOver(drv, use, x, c) ==
    LET y0 == IF drv = "main" THEN 0 ELSE sampleStart
        y1 == IF drv = "main" THEN SampleHeight ELSE sampleEnd
        rows == IF drv = "main" THEN SampleHeight ELSE sampleRows
        sums == [k \in 1..Len(use) |-> ColSum(use[k].img, x, c, y0, y1)]
    IN  (SumSeq(sums) * FP) \div (255 * rows * Len(use))

\* the byte the ramp holds for a mean: the mean itself in main.js, the mean
\* times the brightness scale, capped at 1, in the normalizing builder
RampByte(drv, use, x, c) ==
    IF drv = "main" THEN ByteOf(MeanOver(drv, use, x, c))
    ELSE ByteOf(Min(FP, (MeanOver(drv, use, x, c) * Scale(use)) \div FP))

\* C24: a combined ramp exists only when at least one source was read without
\* error, and each of its columns holds the arithmetic mean of that column's
\* sampled colour over exactly those sources (to one byte of rounding):
\* sources that were skipped or threw add nothing and are not counted.
C24_MeanOverReadSources ==
    ( /\ PaletteDone
      /\ combinedPalette.kind = "combined" )
    => /\ Len(ReadSources) >= 1
       /\ \A x \in Columns : \A c \in Channels :
             Abs(combinedPalette.data[x + 1][c] - RampByte(driver, ReadSources, x, c)) <= 1

\* a ramp was combined although one source threw, or from two different images
C24_Witness ==
    /\ PaletteDone
    /\ combinedPalette.kind = "combined"
    /\ \/ Len(ReadSources) < Len(sources)
       \/ Len(ReadSources) = 2 /\ ReadSources[1].img # ReadSources[2].img

\* the normalizing builder returned a combined ramp
Normalized == PaletteDone /\ driver = "part001" /\ combinedPalette.kind = "combined"

\* C25: in the normalizing builder the brightness scale is within [0.75, 4.5]
\* when the mean brightness exceeds 1e-4 and is 2.5 otherwise, and the ramp
\* it writes has four bytes per column, each in 0..255, with alpha 255.
C25_ScaleClampedBytesInRange ==
    Normalized =>
       /\ IF Brightness(ReadSources) > BrightnessEps
          THEN Scale(ReadSources) >= ScaleMin /\ Scale(ReadSources) <= ScaleMax
          ELSE Scale(ReadSources) = ScaleDark
       /\ Len(combinedPalette.data) = PaletteWidth
       /\ \A i \in 1..PaletteWidth :
             /\ Len(combinedPalette.data[i]) = 4
             /\ \A c \in Channels : combinedPalette.data[i][c] \in 0..255
             /\ combinedPalette.data[i][4] = 255

\* a ramp was normalized whose ratio targetBrightness / brightness is below
\* 0.75, so that the clamp acted
C25_Witness ==
    /\ Normalized
    /\ Brightness(ReadSources) > BrightnessEps
    /\ (targetBrightness * FP) \div Brightness(ReadSources) < ScaleMin

\* C26: in main.js every frame is rendered with u_resolution equal to the
\* size last given to renderer.setSize, whenever the window was resized.
C26_ResolutionMatchesRenderer ==
    (driver = "main" /\ lastFrame # NULL) =>
       lastFrame.uniforms.u_resolution = lastFrame.size

\* how often the cleanup of each loaded source has been called
Releases == [i \in 1..Len(sources) |-> sources[i].released]

\* C27: in the driver that loads through loadImageSource, the cleanup of a
\* loaded source is called only once the palette has been built, never twice;
\* the palette builder reads only sources not yet cleaned up; and when the
\* frame loop starts every loaded source has been cleaned up exactly once,
\* whether the ramp was combined or is the fallback.
C27_CleanupOnceAfterPalette ==
    /\ [][ (driver = "part001" /\ Releases' # Releases /\ Len(sources') = Len(sources))
             => /\ pc = "release"
                /\ combinedPalette # NULL
                /\ \A i \in 1..Len(sources) :
                      sources[i].released = 0 /\ sources'[i].released = 1 ]_vars
    /\ [][ (driver = "part001" /\ pc = "palette")
             => \A i \in 1..Len(sources) : sources[i].released = 0 ]_vars
    /\ []( (driver = "part001" /\ pc \in {"uniforms", "firstFrame", "running"})
             => \A i \in 1..Len(sources) : sources[i].released = 1 )

\* the frame loop runs on the fallback ramp after a source that had loaded,
\* but could not be read, was cleaned up
C27_Witness ==
    /\ driver = "part001"
    /\ pc = "running"
    /\ Len(sources) >= 1
    /\ combinedPalette.kind = "fallback"
    /\ \A i \in 1..Len(sources) : sources[i].released = 1

\* C28: a frame is rendered only with shader sources whose fetch answered
\* with an OK status: the body of a non-OK response is never the vertex or
\* the fragment shader of a rendered frame.
C28_OnlyFetchedShadersRendered ==
    lastFrame # NULL =>
       /\ lastFrame.fragmentShader = "glsl"
       /\ vertexShader = "glsl"

\* C29: every run of animate renders one frame and leaves one callback
\* requested: never more than one callback is pending, one is pending
\* whenever the loop runs, frames come from animate alone, and once init
\* reaches animate() a first frame is rendered and followed by a second.
C29_OneFramePerCallback ==
    /\ [](rafPending \in {0, 1})
    /\ [](pc = "running" <=> rafPending = 1)
    /\ [](lastFrame # NULL => pc = "running")
    /\ [][ (lastFrame' # lastFrame \/ rafPending' # rafPending)
             => /\ pc \in {"firstFrame", "running"}
                /\ pc' = "running"
                /\ rafPending' = 1
                /\ lastFrame'.kind = "frame"
                /\ lastFrame'.elapsed = clock'
                /\ prevFrame' = TimeInputs(lastFrame) ]_vars
    /\ (pc = "firstFrame") ~> (prevFrame # NULL)

\* a frame rendered by a requested callback, after an earlier frame, with
\* the next callback requested
C29_Witness ==
    /\ pc = "running"
    /\ rafPending = 1
    /\ prevFrame # NULL
    /\ lastFrame.elapsed > prevFrame.elapsed

\* channel values the curve is compared at, in thousandths
FilmicProbes == {0, 1, 4, 50, 100, 500, 1000, 5000, 10000}

\* one thousandth, the rounding of the fixed-point curve
CurveRounding == ONE \div 1000

\* C30: the value filmic divides by is a number, at least 0.06; for a scaled
\* colour that is a number the curve gives a value in [0, 1) that does not
\* decrease as the colour grows; and where the clamp directly follows filmic
\* the colour written is the value filmic produced.
C30_FilmicBoundedMonotone ==
    ( /\ frag.kind = "fragment"
      /\ frag.stage \in {"toned", "done"} )
    => LET toe == FilmicToe(frag.variant)
           scaled == FMul(frag.linear, Exposure(frag.variant))
           floored == FMax(frag.build, 0, FAdd(scaled, -toe))
           curve == Filmic(frag.build, scaled, toe)
       IN  /\ ~IsNaN(FilmicDenominator(floored))
           /\ FilmicDenominator(floored) >= 60
           /\ ~IsNaN(scaled)
                => /\ curve >= 0 /\ curve < ONE
                   /\ \A c \in FilmicProbes :
                         /\ c <= scaled => Filmic(frag.build, c, toe) <= curve + CurveRounding
                         /\ c >= scaled => Filmic(frag.build, c, toe) >= curve - CurveRounding
           /\ (frag.stage = "done" /\ frag.variant # "cinematic")
                => frag.fragColor.rgb = curve

====
